---- MODULE Spec2Model ----
(***************************************************************************)
(* Model of the AI architecture review tool: the review core               *)
(* (services/ai_reviewer.py), the Flask shell (app.py) and the command     *)
(* line shell (cli.py), with the process-wide configuration (config.py).   *)
(*                                                                         *)
(* One request is followed in full.  The web server runs other requests    *)
(* concurrently (Flask's threaded server); they touch only the upload      *)
(* folder and the module-level `reviewer`, so they appear as the actions   *)
(* OtherRequestSaves and OtherRequestGetsReviewer, which may be taken      *)
(* between any two steps of the request that is followed.                  *)
(***************************************************************************)
EXTENDS Integers, Sequences, FiniteSets, TLC

(***************************************************************************)
(* Bounds of the model.                                                    *)
(***************************************************************************)
\* longest code text (form field, uploaded file, stdin) that is enumerated
MaxCodeLen == 2

(***************************************************************************)
(* Values.                                                                 *)
(***************************************************************************)
None == "None"
NoExt == ""                 \* os.path.splitext(path)[1] of a name without a dot

\* characters of a code text: one whitespace character, one other character
CodeChars == {" ", "x"}
Whitespace == {" "}

CodeTexts == UNION {[1..n -> CodeChars] : n \in 0..MaxCodeLen}

\* contents of image files
Images == {"imgA", "imgB"}

(***************************************************************************)
(* config.py                                                               *)
(***************************************************************************)
ALLOWED_EXTENSIONS == {"png", "jpg", "jpeg", "gif", "bmp", "webp"}
OPENAI_MODEL == "gpt-4o-mini"

\* the attributes class Config defines; reading any other one raises
\* AttributeError
ConfigAttrs ==
    {"SECRET_KEY", "UPLOAD_FOLDER", "MAX_CONTENT_LENGTH",
     "ALLOWED_EXTENSIONS", "OPENAI_API_KEY", "OPENAI_MODEL"}

\* the methods class ArchitectureReviewer defines; calling any other one
\* raises AttributeError
ReviewerMethods == {"__init__", "encode_image", "review_architecture"}

(***************************************************************************)
(* Strings and file names.                                                 *)
(***************************************************************************)
\* extensions the file names of the model carry ("" is a name without a dot)
Exts == ALLOWED_EXTENSIONS \cup {"PNG", "txt", "rs", "py", NoExt}

\* str.lower() on an extension
lower(e) == IF e = "PNG" THEN "png" ELSE e

\* a file name is stem + "." + ext, or the stem alone when ext = NoExt
Filenames == [stem : {"diagram"}, ext : Exts]

\* str.strip(): drop leading and trailing whitespace
RECURSIVE lstrip(_)
lstrip(s) ==
    IF s # <<>> /\ Head(s) \in Whitespace THEN lstrip(Tail(s)) ELSE s

RECURSIVE rstrip(_)
rstrip(s) ==
    IF s # <<>> /\ s[Len(s)] \in Whitespace
    THEN rstrip(SubSeq(s, 1, Len(s) - 1))
    ELSE s

\* a strip that drops nothing
strip_keeps_whitespace(s) == s

strip(s) == rstrip(lstrip(s))

\* truth value of a str: non-empty
truthy(s) == s # <<>>

\* base64.b64encode(bytes).decode('utf-8'): an injective text form of the bytes
b64encode(bytes) == <<"b64", bytes>>

(***************************************************************************)
(* The model's response text and json.loads.                               *)
(*                                                                         *)
(* A response text is a sequence of tokens: "{", the members of the        *)
(* object, "}".  A member is one section of the review schema with its     *)
(* array of entries: "full" entries carry every field of the schema,       *)
(* "bare" entries omit their nested array (mitigation, implementation,     *)
(* steps).                                                                 *)
(***************************************************************************)
Sections == <<"issues", "security", "scalability", "bestPractices",
              "recommendations">>
SectionNames == {Sections[i] : i \in 1..Len(Sections)}
EntryShapes == {"full", "bare"}

LB == [key |-> "{", val |-> "punct"]
RB == [key |-> "}", val |-> "punct"]
Members == [key : SectionNames, val : EntryShapes]

IsMember(t) == t \in Members

\* a decoder that recovers the members of a text cut off before its "}"
json_loads_lenient(text) ==
    LET n == Len(text)
        body == IF n >= 1 /\ text[n] = RB THEN 2..(n - 1) ELSE 2..n
        keys == {text[i].key : i \in body}
        pick(k) == CHOOSE i \in body : text[i].key = k
    IN  IF n >= 1 /\ text[1] = LB
        THEN [ok |-> TRUE, value |-> [k \in keys |-> text[pick(k)].val],
              error |-> None]
        ELSE [ok |-> FALSE, value |-> <<>>, error |-> "JSONDecodeError"]

\* json.loads(text): a dict when the text is one well-formed object, else
\* JSONDecodeError; a repeated key keeps its last value
json_loads(text) ==
    LET n == Len(text)
        wellFormed == /\ n >= 2
                      /\ text[1] = LB
                      /\ text[n] = RB
                      /\ \A i \in 2..(n - 1) : IsMember(text[i])
        keys == {text[i].key : i \in 2..(n - 1)}
        last(k) == CHOOSE i \in 2..(n - 1) :
                      /\ text[i].key = k
                      /\ \A j \in (i + 1)..(n - 1) : text[j].key # k
    IN  IF wellFormed
        THEN [ok |-> TRUE, value |-> [k \in keys |-> text[last(k)].val],
              error |-> None]
        ELSE [ok |-> FALSE, value |-> <<>>, error |-> "JSONDecodeError"]


\* the Python value None where a review is expected
NoReview == [none |-> "None"]

\* json.dumps of a review object, members in schema order (what a model
\* that follows the prompt's schema writes)
RECURSIVE membersFrom(_, _)
membersFrom(obj, i) ==
    IF i > Len(Sections)
    THEN <<>>
    ELSE (IF Sections[i] \in DOMAIN obj
          THEN <<[key |-> Sections[i], val |-> obj[Sections[i]]]>>
          ELSE <<>>) \o membersFrom(obj, i + 1)

dumps(obj) == <<LB>> \o membersFrom(obj, 1) \o <<RB>>

\* review objects: any subset of the sections, each with full or bare entries
Objects == UNION {[S -> EntryShapes] : S \in SUBSET SectionNames}

\* a text cut off by max_tokens=4000 before its closing brace
truncate(text) == SubSeq(text, 1, Len(text) - 1)

\* what the endpoint can answer in JSON mode (response_format json_object):
\* one JSON object, or one cut off at the token limit
ModelTexts == {dumps(o) : o \in Objects} \cup {truncate(dumps(o)) : o \in Objects}

\* exceptions of client.chat.completions.create
InvokeErrors == {"APIConnectionError", "AuthenticationError",
                 "RateLimitError", "APITimeoutError"}

NoResponse == [tag |-> "none", text |-> <<>>, exc |-> None]
Responses ==
    {[tag |-> "text", text |-> t, exc |-> None] : t \in ModelTexts}
    \cup {[tag |-> "null", text |-> <<>>, exc |-> None]}
    \cup {[tag |-> "raise", text |-> <<>>, exc |-> e] : e \in InvokeErrors}

(***************************************************************************)
(* Result envelope of the core and responses of the shells.                *)
(***************************************************************************)
NoResult == [returned |-> FALSE, success |-> FALSE, review |-> NoReview,
             model |-> None, error |-> None]
Success(review) == [returned |-> TRUE, success |-> TRUE, review |-> review,
                    model |-> OPENAI_MODEL, error |-> None]
Failure(message) == [returned |-> TRUE, success |-> FALSE, review |-> NoReview,
                     model |-> None, error |-> message]

NoHttp == [status |-> 0, json |-> FALSE, success |-> FALSE, error |-> None,
           review |-> NoReview, model |-> None]
\* jsonify(result), status
jsonify(r, status) == [status |-> status, json |-> TRUE, success |-> r.success,
                       error |-> r.error, review |-> r.review, model |-> r.model]
\* jsonify({'success': False, 'error': message}), status
error_envelope(message, status) ==
    [status |-> status, json |-> TRUE, success |-> FALSE, error |-> message,
     review |-> NoReview, model |-> None]
\* an exception no handler catches: Flask answers 500 with an HTML page
unhandled_500 == [status |-> 500, json |-> FALSE, success |-> FALSE,
                  error |-> None, review |-> NoReview, model |-> None]

NoPayload == [model |-> None, mime |-> None, image |-> <<>>]

(***************************************************************************)
(* Requests.                                                               *)
(***************************************************************************)
\* file.filename == '' (web) and an option that was not given (CLI)
EmptyName == [stem |-> "", ext |-> NoExt]

BlankRequest ==
    [kind |-> "none",
     filePart |-> FALSE, filename |-> EmptyName, fileBytes |-> None,
     fileText |-> <<>>,
     formHasCode |-> FALSE, formCode |-> <<>>, formLanguage |-> None,
     stdin |-> FALSE, stdinText |-> <<>>,
     codePath |-> EmptyName, imagePath |-> EmptyName, output |-> FALSE]

Name(e) == [stem |-> "diagram", ext |-> e]

\* POST /api/review: multipart form with or without the part 'image'
WebReviewRequests ==
    {[BlankRequest EXCEPT !.kind = "web_review"]}
    \cup {[BlankRequest EXCEPT !.kind = "web_review", !.filePart = TRUE,
                               !.fileBytes = b] : b \in Images}
    \cup {[BlankRequest EXCEPT !.kind = "web_review", !.filePart = TRUE,
                               !.filename = Name(e), !.fileBytes = b] :
             e \in Exts, b \in Images}

\* POST /api/code-review: form field 'code' (with 'language'), part 'file'
CodeFileExts == {"rs", "py", "txt", NoExt}
WebCodeForms ==
    {[BlankRequest EXCEPT !.kind = "web_code"]}
    \cup {[BlankRequest EXCEPT !.kind = "web_code", !.formHasCode = TRUE,
                               !.formCode = c, !.formLanguage = l] :
             c \in CodeTexts, l \in {None, "Python"}}
WebCodeRequests ==
    WebCodeForms
    \cup {[r EXCEPT !.filePart = TRUE, !.fileText = t] :
             r \in WebCodeForms, t \in CodeTexts}
    \cup {[r EXCEPT !.filePart = TRUE, !.filename = Name(e), !.fileText = t] :
             r \in WebCodeForms, e \in CodeFileExts, t \in CodeTexts}

WebRequests == WebReviewRequests \cup WebCodeRequests

\* the command line: --stdin, -c PATH, -i PATH, -o FILE
CliArgs ==
    {[BlankRequest EXCEPT !.kind = "cli", !.stdin = TRUE, !.stdinText = t,
                          !.codePath = c, !.imagePath = i, !.output = o] :
        t \in CodeTexts, c \in {EmptyName, Name("rs")},
        i \in {EmptyName, Name("png")}, o \in BOOLEAN}
    \cup {[BlankRequest EXCEPT !.kind = "cli", !.codePath = Name(e),
                               !.imagePath = i, !.output = o] :
        e \in CodeFileExts, i \in {EmptyName, Name("png")}, o \in BOOLEAN}
    \cup {[BlankRequest EXCEPT !.kind = "cli", !.imagePath = Name(e),
                               !.output = o] : e \in Exts, o \in BOOLEAN}
    \cup {[BlankRequest EXCEPT !.kind = "cli", !.output = o] : o \in BOOLEAN}

\* what a path of the file system holds
FileStates == {"missing", "dir", "unreadable"} \cup Images

(***************************************************************************)
(* State.                                                                  *)
(***************************************************************************)
VARIABLES
    apiKey,        \* Config.OPENAI_API_KEY is set (read once at import)
    shell,         \* "web" (app.py) or "cli" (cli.py): which program runs
    reviewer,      \* app.py's global `reviewer` / cli.py's local one exists
    fs,            \* file system: the upload folder (web), the paths (CLI)
    pc,            \* position of the request that is followed
    req,           \* its input
    code,          \* local `code` of review_code / main
    language,      \* local `language` of review_code / main
    filepath,      \* image_path handed to the core
    base64_image,  \* local of review_architecture
    mime_type,     \* local of review_architecture
    calls,         \* calls of client.chat.completions.create by this request
    sent,          \* payload of the call
    response,      \* what the call gave: content or exception
    outcome,       \* how the pipeline ended
    result,        \* the dict the core returned
    raised,        \* exception that left the core call or the handler
    http,          \* response of the web endpoint
    exit_code,     \* exit status of the CLI process, -1 while it runs
    message,       \* error text the CLI printed
    saved          \* the CLI wrote the output file

vars == <<apiKey, shell, reviewer, fs, pc, req, code, language, filepath,
          base64_image, mime_type, calls, sent, response, outcome, result,
          raised, http, exit_code, message, saved>>

coreVars == <<filepath, base64_image, mime_type, calls, sent, response,
              outcome, result>>
codeVars == <<code, language>>
cliVars == <<exit_code, message, saved>>

Init ==
    /\ apiKey \in BOOLEAN
    /\ shell \in {"web", "cli"}
    /\ reviewer = FALSE
    /\ fs = [f \in Filenames |-> "missing"]
    /\ pc = "start"
    /\ req = BlankRequest
    /\ code = <<>>
    /\ language = None
    /\ filepath = EmptyName
    /\ base64_image = <<>>
    /\ mime_type = None
    /\ calls = 0
    /\ sent = NoPayload
    /\ response = NoResponse
    /\ outcome = None
    /\ result = NoResult
    /\ raised = None
    /\ http = NoHttp
    /\ exit_code = -1
    /\ message = None
    /\ saved = FALSE

(***************************************************************************)
(* app.py: the web shell.                                                  *)
(***************************************************************************)
\* exceptions that no except clause of the core catches
ExcNoCodeExts == "AttributeError: Config.ALLOWED_CODE_EXTENSIONS"
ExcNoCodeFlow == "AttributeError: ArchitectureReviewer.review_code_flow"
ExcKeyError == "KeyError"

MsgNoImage == "No image file provided"
MsgNoFileSelected == "No file selected"
MsgInvalidType == "Invalid file type"
MsgNoCodeOrFile == "No code or file provided"
MsgEmptyCode == "Empty code provided"
MsgKeyNotSet == "OPENAI_API_KEY is not set"
MsgNoCodeFlow == "'ArchitectureReviewer' object has no attribute 'review_code_flow'"

\* '.' in filename and filename.rsplit('.', 1)[1].lower() in ALLOWED_EXTENSIONS
allowed_file(f) == f.ext # NoExt /\ lower(f.ext) \in ALLOWED_EXTENSIONS

\* '.' in filename and ... in Config.ALLOWED_CODE_EXTENSIONS: False without a
\* dot; with one, the right operand reads an attribute Config does not define
allowed_code_file(f) ==
    IF f.ext = NoExt
    THEN "False"
    ELSE IF "ALLOWED_CODE_EXTENSIONS" \in ConfigAttrs
         THEN "True"
         ELSE "AttributeError"

\* werkzeug's secure_filename: the names of the model hold only safe
\* characters, which it keeps
secure_filename(f) == f

\* extension -> language of review_code and main
language_map(ext) ==
    CASE ext = "py" -> "Python"
      [] ext = "js" -> "JavaScript"
      [] ext = "ts" -> "TypeScript"
      [] ext = "java" -> "Java"
      [] ext = "go" -> "Go"
      [] ext = "rb" -> "Ruby"
      [] ext = "php" -> "PHP"
      [] ext = "c" -> "C"
      [] ext = "cpp" -> "C++"
      [] ext = "rs" -> "Rust"
      [] OTHER -> None

\* a request arrives at one of the two endpoints
WebReceive ==
    /\ shell = "web"
    /\ pc = "start"
    /\ \E r \in WebRequests :
          /\ req' = r
          /\ pc' = IF r.kind = "web_review" THEN "review_architecture"
                                            ELSE "review_code"
    /\ UNCHANGED <<apiKey, shell, reviewer, fs, raised, http>>
    /\ UNCHANGED <<coreVars, codeVars, cliVars>>

\* review_architecture() of app.py up to file.save(filepath)
ValidateAndSave ==
    /\ pc = "review_architecture"
    /\ IF ~req.filePart
       THEN /\ http' = error_envelope(MsgNoImage, 400)
            /\ pc' = "responded"
            /\ UNCHANGED <<fs, filepath>>
       ELSE IF req.filename = EmptyName
       THEN /\ http' = error_envelope(MsgNoFileSelected, 400)
            /\ pc' = "responded"
            /\ UNCHANGED <<fs, filepath>>
       ELSE IF ~allowed_file(req.filename)
       THEN /\ http' = error_envelope(MsgInvalidType, 400)
            /\ pc' = "responded"
            /\ UNCHANGED <<fs, filepath>>
       ELSE \/ /\ filepath' = secure_filename(req.filename)
               /\ fs' = [fs EXCEPT ![secure_filename(req.filename)] =
                                        req.fileBytes]
               /\ pc' = "saved"
               /\ UNCHANGED http
            \/ \* file.save raises (disk full, no permission)
               /\ http' = error_envelope("OSError", 500)
               /\ pc' = "responded"
               /\ UNCHANGED <<fs, filepath>>
    /\ UNCHANGED <<apiKey, shell, reviewer, req, raised>>
    /\ UNCHANGED <<base64_image, mime_type, calls, sent, response, outcome,
                   result>>
    /\ UNCHANGED <<codeVars, cliVars>>

\* review_code() of app.py up to the empty-code check
ReviewCodeInput ==
    /\ pc = "review_code"
    /\ IF req.formHasCode /\ truthy(strip(req.formCode))
       THEN /\ code' = req.formCode
            /\ language' = req.formLanguage
            /\ raised' = raised
            /\ IF ~truthy(req.formCode) \/ ~truthy(strip(req.formCode))
               THEN /\ http' = error_envelope(MsgEmptyCode, 400)
                    /\ pc' = "responded"
               ELSE /\ http' = http
                    /\ pc' = "code_ready"
       ELSE IF req.filePart
       THEN IF req.filename = EmptyName
            THEN /\ http' = error_envelope(MsgNoFileSelected, 400)
                 /\ pc' = "responded"
                 /\ UNCHANGED <<code, language, raised>>
            ELSE IF allowed_code_file(req.filename) = "True"
            THEN \* file.read().decode('utf-8'), language_map.get(ext)
                 /\ code' = req.fileText
                 /\ language' = language_map(lower(req.filename.ext))
                 /\ raised' = raised
                 /\ IF ~truthy(req.fileText) \/ ~truthy(strip(req.fileText))
                    THEN /\ http' = error_envelope(MsgEmptyCode, 400)
                         /\ pc' = "responded"
                    ELSE /\ http' = http
                         /\ pc' = "code_ready"
            ELSE \* AttributeError in allowed_code_file, or in the message
                 \* of the 400 answer, which reads the same attribute;
                 \* no handler catches it
                 /\ raised' = ExcNoCodeExts
                 /\ http' = unhandled_500
                 /\ pc' = "responded"
                 /\ UNCHANGED <<code, language>>
       ELSE /\ http' = error_envelope(MsgNoCodeOrFile, 400)
            /\ pc' = "responded"
            /\ UNCHANGED <<code, language, raised>>
    /\ UNCHANGED <<apiKey, shell, reviewer, fs, req>>
    /\ UNCHANGED <<coreVars, cliVars>>

\* get_reviewer(), called inside the handler's try
GetReviewer ==
    /\ shell = "web"
    /\ pc \in {"saved", "code_ready"}
    /\ IF ~reviewer /\ ~apiKey
       THEN \* ValueError, caught by the handler
            /\ http' = error_envelope(MsgKeyNotSet, 500)
            /\ pc' = "responded"
            /\ UNCHANGED reviewer
       ELSE /\ reviewer' = TRUE
            /\ pc' = IF pc = "saved" THEN "Received" ELSE "review_code_flow"
            /\ UNCHANGED http
    /\ UNCHANGED <<apiKey, shell, fs, req, raised>>
    /\ UNCHANGED <<coreVars, codeVars, cliVars>>

\* another request of the server saves its upload under the same name
\* (file.save(filepath) of its own review_architecture)
OtherRequestSaves ==
    /\ shell = "web"
    /\ pc \in {"saved", "Received"}
    /\ \E b \in Images : fs' = [fs EXCEPT ![filepath] = b]
    /\ UNCHANGED <<apiKey, shell, reviewer, pc, req, raised, http>>
    /\ UNCHANGED <<coreVars, codeVars, cliVars>>

\* another request of the server initialises the global reviewer
OtherRequestGetsReviewer ==
    /\ shell = "web"
    /\ pc \in {"start", "review_architecture", "review_code", "saved",
               "code_ready"}
    /\ apiKey
    /\ ~reviewer
    /\ reviewer' = TRUE
    /\ UNCHANGED <<apiKey, shell, fs, pc, req, raised, http>>
    /\ UNCHANGED <<coreVars, codeVars, cliVars>>

\* the end of both handlers: the core's dict with 200 or 500
WebRespond ==
    /\ shell = "web"
    /\ pc = "Terminal"
    /\ http' = IF result.success THEN jsonify(result, 200)
                                 ELSE jsonify(result, 500)
    /\ pc' = "responded"
    /\ UNCHANGED <<apiKey, shell, reviewer, fs, req, raised>>
    /\ UNCHANGED <<coreVars, codeVars, cliVars>>

(***************************************************************************)
(* services/ai_reviewer.py: the core.                                      *)
(***************************************************************************)
\* mime_types.get(ext, 'image/png'), ext = os.path.splitext(path)[1].lower();
\* the keys are written here without their leading dot
mime_types(ext) ==
    CASE ext = "png" -> "image/png"
      [] ext = "jpg" -> "image/jpeg"
      [] ext = "jpeg" -> "image/jpeg"
      [] ext = "gif" -> "image/gif"
      [] ext = "webp" -> "image/webp"
      [] OTHER -> "image/png"

\* the except clause of review_architecture
CoreFails(how, msg) ==
    /\ result' = Failure(msg)
    /\ outcome' = how
    /\ pc' = "Terminal"

\* encode_image(image_path)
CoreEncode ==
    /\ pc = "Received"
    /\ IF fs[filepath] \in Images
       THEN /\ base64_image' = b64encode(fs[filepath])
            /\ pc' = "Encode"
            /\ UNCHANGED <<result, outcome>>
       ELSE \* open() or read() raises
            /\ CoreFails("EncodeFailure", "IOError")
            /\ UNCHANGED base64_image
    /\ UNCHANGED <<apiKey, shell, reviewer, fs, req, raised, http>>
    /\ UNCHANGED <<filepath, mime_type, calls, sent, response>>
    /\ UNCHANGED <<codeVars, cliVars>>

\* the mime type and the prompt
CorePrompt ==
    /\ pc = "Encode"
    /\ mime_type' = mime_types(lower(filepath.ext))
    /\ pc' = "PromptBuilt"
    /\ UNCHANGED <<apiKey, shell, reviewer, fs, req, raised, http>>
    /\ UNCHANGED <<filepath, base64_image, calls, sent, response, outcome,
                   result>>
    /\ UNCHANGED <<codeVars, cliVars>>

\* self.client.chat.completions.create(...): one blocking call
CoreInvoke ==
    /\ pc = "PromptBuilt"
    /\ calls' = calls + 1
    /\ sent' = [model |-> OPENAI_MODEL, mime |-> mime_type,
                image |-> base64_image]
    /\ \E r \in Responses : response' = r
    /\ pc' = "Invoked"
    /\ UNCHANGED <<apiKey, shell, reviewer, fs, req, raised, http>>
    /\ UNCHANGED <<filepath, base64_image, mime_type, outcome, result>>
    /\ UNCHANGED <<codeVars, cliVars>>

\* a CoreParse that asks the endpoint again after a failed decode
CoreParseRetries ==
    /\ pc = "Invoked"
    /\ IF response.tag = "raise"
       THEN CoreFails("InvokeFailure", response.exc)
       ELSE IF response.tag = "null" \/ ~json_loads(response.text).ok
       THEN IF calls < 2
            THEN /\ pc' = "PromptBuilt"
                 /\ UNCHANGED <<result, outcome>>
            ELSE CoreFails("ParseFailure", "JSONDecodeError")
       ELSE /\ result' = Success(json_loads(response.text).value)
            /\ outcome' = "ParseSuccess"
            /\ pc' = "Terminal"
    /\ UNCHANGED <<apiKey, shell, reviewer, fs, req, raised, http>>
    /\ UNCHANGED <<filepath, base64_image, mime_type, calls, sent, response>>
    /\ UNCHANGED <<codeVars, cliVars>>

\* json.loads(response.choices[0].message.content) and the two returns
CoreParse ==
    /\ pc = "Invoked"
    /\ IF response.tag = "raise"
       THEN CoreFails("InvokeFailure", response.exc)
       ELSE IF response.tag = "null"
       THEN \* json.loads(None)
            CoreFails("ParseFailure", "TypeError")
       ELSE LET d == json_loads(response.text)
            IN  IF d.ok
                THEN /\ result' = Success(d.value)
                     /\ outcome' = "ParseSuccess"
                     /\ pc' = "Terminal"
                ELSE CoreFails("ParseFailure", d.error)
    /\ UNCHANGED <<apiKey, shell, reviewer, fs, req, raised, http>>
    /\ UNCHANGED <<filepath, base64_image, mime_type, calls, sent, response>>
    /\ UNCHANGED <<codeVars, cliVars>>

\* reviewer.review_code_flow(code, language): the class defines no such
\* method, the attribute lookup raises AttributeError.  app.py's handler
\* catches it; cli.py's main does not, and the interpreter exits with 1
CallReviewCodeFlow ==
    /\ pc = "review_code_flow"
    /\ IF "review_code_flow" \in ReviewerMethods
       THEN /\ pc' = "Received"
            /\ UNCHANGED <<raised, http, exit_code>>
       ELSE /\ raised' = ExcNoCodeFlow
            /\ IF shell = "web"
               THEN /\ http' = error_envelope(MsgNoCodeFlow, 500)
                    /\ pc' = "responded"
                    /\ UNCHANGED exit_code
               ELSE /\ exit_code' = 1
                    /\ pc' = "exited"
                    /\ UNCHANGED http
    /\ UNCHANGED <<apiKey, shell, reviewer, fs, req, message, saved>>
    /\ UNCHANGED <<coreVars, codeVars>>

(***************************************************************************)
(* cli.py: the command line shell.                                         *)
(***************************************************************************)
MsgCliKeyNotSet == "Error: OPENAI_API_KEY environment variable is not set"
MsgCliNoStdin == "Error: No code provided via stdin"
MsgCliNotFound == "Error: File not found"
MsgCliNotFile == "Error: Path is not a file"
MsgCliInvalidType == "Error: Invalid file type"
MsgCliNoMode == "Error: You must specify either -i/--image, -c/--code, or --stdin"

\* validate_image_path(path): "ok" or the message it prints
validate_image_path(path) ==
    IF fs[path] = "missing" THEN MsgCliNotFound
    ELSE IF fs[path] = "dir" THEN MsgCliNotFile
    ELSE IF lower(path.ext) \notin ALLOWED_EXTENSIONS THEN MsgCliInvalidType
    ELSE "ok"

\* validate_code_path(path): the extension check reads
\* Config.ALLOWED_CODE_EXTENSIONS, which Config does not define
validate_code_path(path) ==
    IF fs[path] = "missing" THEN MsgCliNotFound
    ELSE IF fs[path] = "dir" THEN MsgCliNotFile
    ELSE IF "ALLOWED_CODE_EXTENSIONS" \notin ConfigAttrs THEN "AttributeError"
    ELSE "ok"

\* print_review(result): indexes every field of every entry of a section
\* that is present, KeyError on an entry without its nested array
print_review_raises(r) ==
    /\ r.success
    /\ \E k \in DOMAIN r.review : r.review[k] = "bare"

\* the process starts with its arguments, stdin and the files they name
CliStart ==
    /\ shell = "cli"
    /\ pc = "start"
    /\ \E a \in CliArgs, st \in FileStates :
          /\ req' = a
          /\ fs' = IF a.stdin THEN fs
                   ELSE IF a.codePath # EmptyName
                   THEN [fs EXCEPT ![a.codePath] = st]
                   ELSE IF a.imagePath # EmptyName
                   THEN [fs EXCEPT ![a.imagePath] = st]
                   ELSE fs
    /\ pc' = "main"
    /\ UNCHANGED <<apiKey, shell, reviewer, raised, http>>
    /\ UNCHANGED <<coreVars, codeVars, cliVars>>

CliExit(status, msg) ==
    /\ exit_code' = status
    /\ message' = msg
    /\ pc' = "exited"

\* main() from the credential check to the call of the core
CliMain ==
    /\ pc = "main"
    /\ IF ~apiKey
       THEN /\ CliExit(1, MsgCliKeyNotSet)
            /\ UNCHANGED <<reviewer, code, language, filepath, raised>>
       ELSE IF req.stdin
       THEN IF ~truthy(strip(req.stdinText))
            THEN /\ CliExit(1, MsgCliNoStdin)
                 /\ UNCHANGED <<reviewer, code, language, filepath, raised>>
            ELSE /\ code' = req.stdinText
                 /\ language' = None
                 /\ reviewer' = TRUE
                 /\ pc' = "review_code_flow"
                 /\ UNCHANGED <<filepath, raised, exit_code, message>>
       ELSE IF req.codePath # EmptyName
       THEN LET v == validate_code_path(req.codePath)
            IN  IF v = "AttributeError"
                THEN \* uncaught: traceback, exit status 1
                     /\ raised' = ExcNoCodeExts
                     /\ CliExit(1, None)
                     /\ UNCHANGED <<reviewer, code, language, filepath>>
                ELSE IF v # "ok"
                THEN /\ CliExit(1, v)
                     /\ UNCHANGED <<reviewer, code, language, filepath,
                                    raised>>
                ELSE \* open(args.code).read(), language_map.get(ext)
                     /\ code' = <<"x">>
                     /\ language' = language_map(lower(req.codePath.ext))
                     /\ reviewer' = TRUE
                     /\ pc' = "review_code_flow"
                     /\ UNCHANGED <<filepath, raised, exit_code, message>>
       ELSE IF req.imagePath # EmptyName
       THEN LET v == validate_image_path(req.imagePath)
            IN  IF v # "ok"
                THEN /\ CliExit(1, v)
                     /\ UNCHANGED <<reviewer, code, language, filepath,
                                    raised>>
                ELSE /\ reviewer' = TRUE
                     /\ filepath' = req.imagePath
                     /\ pc' = "Received"
                     /\ UNCHANGED <<code, language, raised, exit_code,
                                    message>>
       ELSE /\ CliExit(1, MsgCliNoMode)
            /\ UNCHANGED <<reviewer, code, language, filepath, raised>>
    /\ UNCHANGED <<apiKey, shell, fs, req, http, saved>>
    /\ UNCHANGED <<base64_image, mime_type, calls, sent, response, outcome,
                   result>>

\* print_review(result) after the core returned
CliPrint ==
    /\ shell = "cli"
    /\ pc = "Terminal"
    /\ IF print_review_raises(result)
       THEN \* KeyError, uncaught: traceback, exit status 1
            /\ raised' = ExcKeyError
            /\ exit_code' = 1
            /\ pc' = "exited"
            /\ UNCHANGED message
       ELSE /\ message' = IF result.success THEN None ELSE result.error
            /\ pc' = "printed"
            /\ UNCHANGED <<raised, exit_code>>
    /\ UNCHANGED <<apiKey, shell, reviewer, fs, req, http, saved>>
    /\ UNCHANGED <<coreVars, codeVars>>

\* the optional output file and sys.exit(0 if result['success'] else 1)
CliSaveAndExit ==
    /\ pc = "printed"
    /\ IF req.output /\ result.success
       THEN \E written \in BOOLEAN : saved' = written
       ELSE saved' = saved
    /\ exit_code' = IF result.success THEN 0 ELSE 1
    /\ pc' = "exited"
    /\ UNCHANGED <<apiKey, shell, reviewer, fs, req, raised, http, message>>
    /\ UNCHANGED <<coreVars, codeVars>>

(***************************************************************************)
(* Specifications.                                                         *)
(***************************************************************************)
Next ==
    \/ WebReceive
    \/ ValidateAndSave
    \/ ReviewCodeInput
    \/ GetReviewer
    \/ OtherRequestSaves
    \/ OtherRequestGetsReviewer
    \/ WebRespond
    \/ CoreEncode
    \/ CorePrompt
    \/ CoreInvoke
    \/ CoreParse
    \/ CallReviewCodeFlow
    \/ CliStart
    \/ CliMain
    \/ CliPrint
    \/ CliSaveAndExit

Spec == Init /\ [][Next]_vars

\* every step of a request is ordinary sequential code: the request that is
\* followed keeps running until it has answered
RequestStep ==
    \/ WebReceive \/ ValidateAndSave \/ ReviewCodeInput \/ GetReviewer
    \/ WebRespond \/ CoreEncode \/ CorePrompt \/ CoreInvoke \/ CoreParse
    \/ CallReviewCodeFlow \/ CliStart \/ CliMain \/ CliPrint
    \/ CliSaveAndExit

FairSpec == Spec /\ WF_vars(RequestStep)

(***************************************************************************)
(* Properties.                                                             *)
(***************************************************************************)
\* the request has been answered (web) or the process has exited (CLI)
Finished == pc \in {"responded", "exited"}

\* every character is whitespace
blank(s) == \A i \in 1..Len(s) : s[i] \in Whitespace

\* C1: every review request of either kind that reaches the core gets exactly
\* one result from it, Success (review and model) or Failure (error), and no
\* exception leaves the core call
C1_CoreReturnsOneEnvelope ==
    /\ raised # ExcNoCodeFlow
    /\ pc = "Terminal" =>
          /\ result.returned
          /\ \/ result.success /\ result.model = OPENAI_MODEL
                               /\ result.review # NoReview
             \/ ~result.success /\ result.error # None
                                /\ result.review = NoReview

\* a code review request whose code is empty or only whitespace in every
\* place that supplies it: the form field and the uploaded file (web), stdin
EmptyCodeInput ==
    \/ /\ req.kind = "web_code"
       /\ req.formHasCode \/ (req.filePart /\ req.filename # EmptyName)
       /\ req.formHasCode => blank(req.formCode)
       /\ req.filePart => blank(req.fileText)
    \/ /\ req.kind = "cli"
       /\ req.stdin
       /\ blank(req.stdinText)

Stage(p) ==
    CASE p = "Received" -> 1
      [] p = "Encode" -> 2
      [] p = "PromptBuilt" -> 3
      [] p = "Invoked" -> 4
      [] p = "Terminal" -> 5
      [] p \in {"responded", "printed", "exited"} -> 6
      [] OTHER -> 0

\* a step never moves a request back, and the only step that calls the
\* endpoint is the one from PromptBuilt to Invoked, taken with no call made
ForwardStep ==
    /\ Stage(pc') >= Stage(pc)
    /\ calls' # calls =>
          /\ calls = 0
          /\ calls' = 1
          /\ pc = "PromptBuilt"
          /\ pc' = "Invoked"

\* the calls made, by how far the request got
CallsByStage ==
    /\ Stage(pc) \in 1..3 => calls = 0
    /\ pc = "Invoked" => calls = 1
    /\ Stage(pc) >= 5 =>
          /\ outcome \in {"ParseSuccess", "ParseFailure", "InvokeFailure"}
                => calls = 1
          /\ outcome \in {"EncodeFailure", None} => calls = 0

WellFormedTexts == {dumps(o) : o \in Objects}
DecodeErrors == {"JSONDecodeError", "TypeError"}

\* C4: the result of parsing is Success exactly when the response text
\* decodes as an object; then the review is the decoded object unchanged,
\* whatever sections it lacks, with the configured model; otherwise the
\* result is a Failure with the decoder's message and no review
C4_SuccessIffDecodes ==
    (result.returned /\ response.tag \in {"text", "null"}) =>
        IF response.tag = "text" /\ response.text \in WellFormedTexts
        THEN /\ result.success
             /\ result.review \in Objects
             /\ dumps(result.review) = response.text
             /\ result.model = OPENAI_MODEL
             /\ result.error = None
        ELSE /\ ~result.success
             /\ result.review = NoReview
             /\ result.error \in DecodeErrors

\* a response without the sections security and scalability was a Success
C4_MissingSectionsSucceed ==
    /\ pc = "Terminal"
    /\ result.success
    /\ DOMAIN result.review = {"issues", "bestPractices", "recommendations"}
    /\ response.text = dumps(result.review)

\* a review attempt whose input is in order: an image with an allowed
\* extension, non-blank code in the form, a non-blank code file with a code
\* extension (web); any run of the CLI, which checks the credential first
AttemptInOrder ==
    \/ /\ req.kind = "web_review"
       /\ req.filePart
       /\ allowed_file(req.filename)
    \/ /\ req.kind = "web_code"
       /\ req.formHasCode
       /\ ~blank(req.formCode)
    \/ /\ req.kind = "web_code"
       /\ req.filePart
       /\ req.filename.ext \in {"rs", "py"}
       /\ ~blank(req.fileText)
    \/ req.kind = "cli"

\* C5: without the API credential every review attempt, through every entry
\* point, ends in a Failure with the configuration message; no reviewer is
\* constructed and the model is never called
C5_NoCredentialConfigFailure ==
    (~apiKey /\ AttemptInOrder) =>
        /\ ~reviewer
        /\ calls = 0
        /\ Finished =>
              IF shell = "web"
              THEN \/ http = error_envelope(MsgKeyNotSet, 500)
                   \/ \* the upload could not even be stored
                      http = error_envelope("OSError", 500)
              ELSE exit_code = 1 /\ message = MsgCliKeyNotSet

\* C6: the model call of a web request carries the image that this request
\* uploaded, however other requests are interleaved with it
C6_CallCarriesOwnImage ==
    (shell = "web" /\ calls > 0) => sent.image = b64encode(req.fileBytes)

\* the media type registered for each allowed image format
DocumentedSubtype(ext) ==
    CASE ext = "png" -> "image/png"
      [] ext \in {"jpg", "jpeg"} -> "image/jpeg"
      [] ext = "gif" -> "image/gif"
      [] ext = "bmp" -> "image/bmp"
      [] ext = "webp" -> "image/webp"

\* C7: the media type sent to the model is the documented one of the image's
\* format for every allowed extension, and image/png for any other one
C7_DocumentedMimeSent ==
    calls > 0 =>
        sent.mime = IF lower(filepath.ext) \in ALLOWED_EXTENSIONS
                    THEN DocumentedSubtype(lower(filepath.ext))
                    ELSE "image/png"

\* a review of a code file with extension .rs that nothing else stops: the
\* credential is set, the file exists and holds code (CLI -c, web upload
\* without a code field)
RustFileReview ==
    /\ apiKey
    /\ \/ /\ req.kind = "cli"
          /\ ~req.stdin
          /\ req.codePath = Name("rs")
          /\ fs[req.codePath] \in Images
       \/ /\ req.kind = "web_code"
          /\ ~req.formHasCode
          /\ req.filePart
          /\ req.filename = Name("rs")
          /\ ~blank(req.fileText)

\* C8: a code review of a .rs file resolves the language hint "Rust" and
\* reaches the model call with it
C8_RustHintReachesModel ==
    (Finished /\ RustFileReview) => (language = "Rust" /\ calls = 1)

\* C9: the CLI exits with 0 when the review result is Success and with 1
\* when it is a Failure or the invocation is invalid; a failed write of the
\* output file does not change the exit code
C9_ExitCodeFollowsResult ==
    (shell = "cli" /\ pc = "exited") =>
        /\ exit_code = (IF result.success THEN 0 ELSE 1)
        /\ (result.success /\ req.output /\ ~saved) => exit_code = 0

\* C10: a web endpoint answers 2xx exactly when the review result is Success;
\* every failure is a JSON envelope with success=false and the error message
\* under a non-2xx status
C10_FailureIsJsonEnvelope ==
    (shell = "web" /\ pc = "responded") =>
        /\ http.status \in 200..299 <=> result.success
        /\ ~result.success =>
              /\ http.status >= 400
              /\ http.json
              /\ ~http.success
              /\ http.error # None

\* print_code_review(result): every section is guarded by
\* "'key' in review and review['key']" and every field of an entry is read
\* with .get(..., 'N/A'), so no shape of the entries makes it raise
print_code_review_raises(r) ==
    /\ r.success
    /\ \E k \in DOMAIN r.review : FALSE

\* C11: for every Success whose review omits any of its array-valued fields,
\* a whole section or the nested array of an entry (mitigation,
\* implementation, steps), print_review and print_code_review complete
\* without raising
C11_PrintersComplete ==
    (shell = "cli" /\ result.success) =>
        /\ ~print_code_review_raises(result)
        /\ pc \in {"printed", "exited"} => raised = None

\* the extensions of code files that review_code and main know a language for
KnownCodeExts == {"py", "js", "ts", "java", "go", "rb", "php", "c", "cpp", "rs"}

\* a request that names a file whose extension is outside the allowed set of
\* its kind and that nothing else stops first: the CLI's credential is set
\* and its path is an existing file, the web form holds no code
DisallowedExtension ==
    \/ /\ req.kind = "web_review"
       /\ req.filePart
       /\ req.filename # EmptyName
       /\ lower(req.filename.ext) \notin ALLOWED_EXTENSIONS
    \/ /\ req.kind = "web_code"
       /\ ~req.formHasCode
       /\ req.filePart
       /\ req.filename # EmptyName
       /\ lower(req.filename.ext) \notin KnownCodeExts
    \/ /\ req.kind = "cli"
       /\ apiKey
       /\ ~req.stdin
       /\ req.codePath = EmptyName
       /\ req.imagePath # EmptyName
       /\ fs[req.imagePath] \in Images \cup {"unreadable"}
       /\ lower(req.imagePath.ext) \notin ALLOWED_EXTENSIONS
    \/ /\ req.kind = "cli"
       /\ apiKey
       /\ ~req.stdin
       /\ req.codePath # EmptyName
       /\ fs[req.codePath] \in Images \cup {"unreadable"}
       /\ lower(req.codePath.ext) \notin KnownCodeExts

\* C12: a request whose file extension is outside the allowed set of its
\* kind is rejected by the caller with an invalid-file-type error, and the
\* core is never invoked for it
C12_DisallowedExtensionRejected ==
    (pc # "start" /\ DisallowedExtension) =>
        /\ Stage(pc) \in {0, 6}
        /\ pc # "review_code_flow"
        /\ ~result.returned
        /\ calls = 0
        /\ Finished =>
              IF shell = "web"
              THEN http = error_envelope(MsgInvalidType, 400)
              ELSE exit_code = 1 /\ message = MsgCliInvalidType

====
